---------------------------- MODULE Spec2Model ----------------------------
(* BasedPlayblast: a model of the operators of src/__init__.py.            *)
(*                                                                          *)
(* The host's property tree (scene, render, image settings, encoder,        *)
(* Cycles, EEVEE, Workbench, the light, the preferences and the 3D          *)
(* viewport) is one function from attribute names to values.  Strings the   *)
(* code builds (file names, paths, the stamp note, the status message) are  *)
(* sequences of string tokens, so that concatenation, splitext, rstrip and  *)
(* number formatting are computed the way the code computes them.  Floats   *)
(* the code only copies are kept as their decimal text.                     *)
EXTENDS Integers, Sequences, FiniteSets, TLC

(***************************************************************************)
(* Bounds                                                                  *)
(***************************************************************************)
\* Largest frame number of the modelled time line.
MaxFrame == 3
\* Number of times the user presses Create Playblast or Apply in one behaviour.
MaxOps == 1

\* Number of update checks in one behaviour.
MaxChecks == 2

(***************************************************************************)
(* Enumerations and pure helpers                                           *)
(***************************************************************************)
DISPLAY_MODE_ITEMS == {"WIREFRAME", "SOLID", "MATERIAL", "RENDERED"}

RESOLUTION_MODE_ITEMS == {"SCENE", "PRESET", "CUSTOM"}

VIDEO_QUALITY_ITEMS ==
  {"LOWEST", "VERYLOW", "LOW", "MEDIUM", "HIGH", "PERC_LOSSLESS", "LOSSLESS"}

\* The twelve preset identifiers, as character sequences.
RESOLUTION_PRESET_ITEMS ==
  { <<"x","1","9","2","0","y","1","0","8","0">>,
    <<"x","1","2","8","0","y","7","2","0">>,
    <<"x","8","5","4","y","4","8","0">>,
    <<"x","6","4","0","y","3","6","0">>,
    <<"x","1","9","2","0","y","1","4","4","0">>,
    <<"x","1","6","0","0","y","1","2","0","0">>,
    <<"x","1","2","8","0","y","9","6","0">>,
    <<"x","1","0","2","4","y","7","6","8">>,
    <<"x","8","0","0","y","6","0","0">>,
    <<"x","6","4","0","y","4","8","0">>,
    <<"x","1","0","2","4","y","1","0","2","4">>,
    <<"x","5","1","2","y","5","1","2">> }

get_file_extension(video_format) ==
  IF video_format = "MPEG4" THEN ".mp4"
  ELSE IF video_format = "QUICKTIME" THEN ".mov"
  ELSE IF video_format = "AVI" THEN ".avi"
  ELSE IF video_format = "MKV" THEN ".mkv"
  ELSE ".mp4"

get_ffmpeg_quality(quality_enum) ==
  CASE quality_enum = "LOWEST" -> "HIGH"
    [] quality_enum = "VERYLOW" -> "HIGH"
    [] quality_enum = "LOW" -> "MEDIUM"
    [] quality_enum = "MEDIUM" -> "MEDIUM"
    [] quality_enum = "HIGH" -> "LOW"
    [] quality_enum = "PERC_LOSSLESS" -> "PERC_LOSSLESS"
    [] quality_enum = "LOSSLESS" -> "LOSSLESS"
    [] OTHER -> "MEDIUM"

DigitChar == <<"0", "1", "2", "3", "4", "5", "6", "7", "8", "9">>

\* str(n) / f"{n}" for a natural number: its decimal digits.
RECURSIVE IntToStr(_)
IntToStr(n) ==
  IF n < 10 THEN <<DigitChar[n + 1]>>
  ELSE IntToStr(n \div 10) \o <<DigitChar[(n % 10) + 1]>>

DigitValue(c) == CHOOSE d \in 0..9 : DigitChar[d + 1] = c

\* int(s) for a string of decimal digits.
RECURSIVE StrToInt(_)
StrToInt(s) ==
  IF Len(s) = 0 THEN 0
  ELSE StrToInt(SubSeq(s, 1, Len(s) - 1)) * 10 + DigitValue(s[Len(s)])

\* Position of the first occurrence of character c in s, 0 when absent.
IndexOf(s, c) ==
  IF \E i \in 1..Len(s) : s[i] = c
  THEN CHOOSE i \in 1..Len(s) : s[i] = c /\ \A j \in 1..(i - 1) : s[j] # c
  ELSE 0

\* Position of the last occurrence of character c in s, 0 when absent.
LastIndexOf(s, c) ==
  IF \E i \in 1..Len(s) : s[i] = c
  THEN CHOOSE i \in 1..Len(s) : s[i] = c /\ \A j \in (i + 1)..Len(s) : s[j] # c
  ELSE 0

\* s.replace(c, ''): s without the character c.
RemoveChar(s, c) == SelectSeq(s, LAMBDA ch : ch # c)

\* preset.split('y')[0].replace('x', '') parsed by int().
PresetX(preset) ==
  StrToInt(RemoveChar(SubSeq(preset, 1, IndexOf(preset, "y") - 1), "x"))

\* preset.split('y')[1] parsed by int() (the presets hold a single 'y').
PresetY(preset) ==
  StrToInt(SubSeq(preset, IndexOf(preset, "y") + 1, Len(preset)))

\* os.path.splitext(name)[0] when '.' occurs in name, otherwise name.
StripExtension(name) ==
  IF LastIndexOf(name, ".") > 0
  THEN SubSeq(name, 1, LastIndexOf(name, ".") - 1)
  ELSE name

\* name.rstrip('_')
RECURSIVE RStripUnderscore(_)
RStripUnderscore(name) ==
  IF Len(name) > 0 /\ name[Len(name)] = "_"
  THEN RStripUnderscore(SubSeq(name, 1, Len(name) - 1))
  ELSE name

\* f"_{frame_start}-{frame_end}"
FrameRangeStr(fs, fe) == <<"_">> \o IntToStr(fs) \o <<"-">> \o IntToStr(fe)

\* The file name invoke and convert_frames_to_video derive from props.
BlastFileName(file_name, fs, fe) ==
  RStripUnderscore(StripExtension(file_name)) \o FrameRangeStr(fs, fe)

\* int(resolution * (resolution_percentage / 100.0)); the inputs of the
\* model are ones on which the float product truncates to the exact quotient.
ScaledResolution(res, pct) == (res * pct) \div 100

\* f"\nResolution: {int(res_x)} x {int(res_y)}"
ResolutionLine(res_x, res_y, pct) ==
  <<"\nResolution: ">> \o IntToStr(ScaledResolution(res_x, pct))
    \o <<" x ">> \o IntToStr(ScaledResolution(res_y, pct))

\* Overwrite the attributes named in g, keep every other attribute of f.
Assign(f, g) == [a \in DOMAIN f |-> IF a \in DOMAIN g THEN g[a] ELSE f[a]]

\* The restriction of f to the keys in S.
Restrict(f, S) == [a \in S |-> f[a]]


(***************************************************************************)
(* The host's property tree                                                *)
(***************************************************************************)
\* Attribute names are the host API paths with '.' written '_':
\*   scene_*    bpy.context.scene.*          render_*  scene.render.*
\*   image_*    scene.render.image_settings  ffmpeg_*  scene.render.ffmpeg.*
\*   cycles_*   scene.cycles.*               eevee_*   scene.eevee.*
\*   display_*  scene.display(.shading).*    light_*   the scene's light object
\*   prefs_*    context.preferences.view.*   view_*    the 3D viewport
\* UserScene is the state of a scene a user has set up: every value differs
\* from the value the operators write, so an attribute that is not put back
\* is visible.
UserScene ==
  [ scene_camera |-> "Cam1", scene_frame_start |-> 1,
    scene_frame_end |-> MaxFrame, scene_frame_step |-> 1,
    scene_frame_current |-> 1, scene_world |-> "World", scene_use_nodes |-> TRUE,
    render_engine |-> "CYCLES", render_filepath |-> <<"/tmp/", "shot">>,
    render_resolution_x |-> 1280, render_resolution_y |-> 960,
    render_resolution_percentage |-> 25,
    render_use_file_extension |-> FALSE, render_use_overwrite |-> FALSE,
    render_use_placeholder |-> TRUE, render_film_transparent |-> TRUE,
    render_use_simplify |-> FALSE, render_simplify_subdivision |-> 6,
    render_simplify_child_particles |-> "1.0", render_simplify_volumes |-> "1.0",
    render_simplify_shadows |-> "1.0", render_simplify_culling |-> FALSE,
    render_texture_limit |-> "OFF", render_use_motion_blur |-> TRUE,
    render_use_stamp |-> FALSE, render_use_stamp_date |-> FALSE,
    render_use_stamp_time |-> FALSE, render_use_stamp_frame |-> FALSE,
    render_use_stamp_camera |-> FALSE, render_use_stamp_lens |-> FALSE,
    render_use_stamp_scene |-> FALSE, render_use_stamp_note |-> FALSE,
    render_stamp_note_text |-> <<"user note">>,
    image_file_format |-> "OPEN_EXR", image_color_mode |-> "RGB",
    image_compression |-> 90,
    ffmpeg_format |-> "OGG", ffmpeg_codec |-> "THEORA",
    ffmpeg_constant_rate_factor |-> "NONE", ffmpeg_audio_codec |-> "VORBIS",
    ffmpeg_audio_bitrate |-> 128,
    cycles_samples |-> 128, cycles_use_denoising |-> TRUE,
    cycles_max_bounces |-> 12, cycles_diffuse_bounces |-> 4,
    cycles_glossy_bounces |-> 4, cycles_transmission_bounces |-> 12,
    cycles_volume_bounces |-> 2, cycles_caustics_reflective |-> TRUE,
    cycles_caustics_refractive |-> TRUE, cycles_pixel_filter_width |-> "1.5",
    cycles_ao_bounces |-> 4, cycles_ao_bounces_render |-> 4,
    cycles_use_adaptive_sampling |-> FALSE, cycles_adaptive_threshold |-> "0.01",
    cycles_adaptive_min_samples |-> 4, cycles_light_sampling_threshold |-> "0.01",
    cycles_sample_clamp_direct |-> "1.0", cycles_sample_clamp_indirect |-> "10.0",
    cycles_blur_glossy |-> "1.0", cycles_sample_all_lights_direct |-> TRUE,
    cycles_sample_all_lights_indirect |-> TRUE, cycles_filter_type |-> "GAUSSIAN",
    cycles_preview_samples |-> 32, cycles_aa_samples |-> 4,
    cycles_use_transparent_shadows |-> TRUE, cycles_transparent_max_bounces |-> 8,
    cycles_tile_size |-> 256, cycles_use_auto_tile |-> FALSE,
    cycles_progressive |-> "BRANCHED_PATH", cycles_use_persistent_data |-> FALSE,
    cycles_device |-> "CPU", cycles_feature_set |-> "EXPERIMENTAL",
    cycles_use_cpu_device |-> TRUE,
    eevee_taa_render_samples |-> 64, eevee_shadow_cube_size |-> "1024",
    eevee_shadow_cascade_size |-> "2048", eevee_use_soft_shadows |-> TRUE,
    eevee_use_shadows |-> TRUE, eevee_use_bloom |-> TRUE, eevee_use_ssr |-> TRUE,
    eevee_use_ssr_refraction |-> TRUE, eevee_use_motion_blur |-> TRUE,
    eevee_use_volumetric_lights |-> TRUE, eevee_use_gtao |-> TRUE,
    eevee_gi_diffuse_bounces |-> 3, eevee_gi_irradiance_smoothing |-> "0.5",
    eevee_gi_glossy_clamp |-> "1.0", eevee_ssr_max_roughness |-> "0.9",
    eevee_ssr_thickness |-> "0.5", eevee_ssr_border_fade |-> "0.1",
    eevee_ssr_firefly_fac |-> "5.0", eevee_shadow_ray_count |-> 4,
    eevee_shadow_step_count |-> 6, eevee_fast_gi_method |-> "AMBIENT_OCCLUSION_ONLY",
    eevee_fast_gi_ray_count |-> 4, eevee_fast_gi_step_count |-> 4,
    eevee_fast_gi_quality |-> "0.5", eevee_fast_gi_distance |-> "10.0",
    eevee_use_persistent_data |-> FALSE, eevee_volumetric_samples |-> 64,
    eevee_use_scene_lights |-> TRUE, eevee_use_scene_world |-> FALSE,
    eevee_use_raytrace |-> TRUE, eevee_sss_samples |-> 7, eevee_tile_size |-> "16",
    display_shading_type |-> "TEXTURED", display_shading_light |-> "FLAT",
    display_shading_color_type |-> "TEXTURE", display_render_aa |-> "8",
    display_shading_render_pass |-> "NORMAL", display_shading_show_cavity |-> TRUE,
    display_shading_show_object_outline |-> TRUE,
    display_shading_show_specular_highlight |-> TRUE,
    display_shading_use_dof |-> FALSE,
    light_hide_viewport |-> FALSE, light_hide_render |-> FALSE,
    light_visible_camera |-> TRUE, light_visible_diffuse |-> TRUE,
    light_visible_glossy |-> TRUE, light_visible_transmission |-> TRUE,
    light_visible_volume_scatter |-> TRUE,
    prefs_render_display_type |-> "WINDOW",
    view_shading_type |-> "TEXTURED", view_shading_color_type |-> "TEXTURE",
    view_shading_light |-> "MATCAP", view_overlay_show_overlays |-> TRUE,
    view_view_perspective |-> "PERSP", view_use_local_camera |-> TRUE ]

Attrs == DOMAIN UserScene

\* Attributes apply_blast_settings writes only under hasattr and that no
\* snapshot holds; whether the host build has them is a fact of the host.
OptionalAttrs ==
  { "render_texture_limit", "render_simplify_shadows", "render_simplify_culling",
    "cycles_ao_bounces", "cycles_ao_bounces_render", "cycles_use_cpu_device",
    "eevee_use_scene_lights", "eevee_use_scene_world", "eevee_use_raytrace",
    "eevee_sss_samples", "eevee_tile_size", "display_shading_render_pass" }

\* Objects of the scene: name -> type.
SceneObjects == [ Cam1 |-> "CAMERA", Cam2 |-> "CAMERA", Cube |-> "MESH", Light |-> "LIGHT" ]

\* bpy.data.worlds before any operator ran.
UserWorlds == {"World"}

(***************************************************************************)
(* The add-on's property group and the operator instance                   *)
(***************************************************************************)
\* A settings snapshot that holds nothing: the empty string of
\* props.original_settings, the None of self._original_settings.
NoSettings == [a \in {} |-> TRUE]

\* An empty set of attribute writes.
NoWrites == [a \in {} |-> TRUE]

\* BPLProperties with the defaults of the source; the manual frame range is
\* scaled to the modelled time line.
DefaultProps ==
  [ output_path |-> <<"/blast/">>,
    file_name |-> <<"b", "l", "a", "s", "t", "_">>,
    last_playblast_file |-> <<>>,
    camera_object |-> "NONE", use_active_camera |-> TRUE,
    resolution_mode |-> "SCENE",
    resolution_preset |-> <<"x","1","9","2","0","y","1","0","8","0">>,
    resolution_x |-> 1920, resolution_y |-> 1080, resolution_percentage |-> 100,
    use_scene_frame_range |-> TRUE, start_frame |-> 2, end_frame |-> MaxFrame,
    video_format |-> "MPEG4", video_codec |-> "H264", video_quality |-> "MEDIUM",
    include_audio |-> FALSE, audio_codec |-> "AAC", audio_bitrate |-> 192,
    display_mode |-> "SOLID", auto_disable_overlays |-> TRUE,
    enable_depth_of_field |-> TRUE,
    show_metadata |-> TRUE, metadata_resolution |-> TRUE, metadata_frame |-> TRUE,
    metadata_scene |-> TRUE, metadata_camera |-> TRUE, metadata_lens |-> TRUE,
    metadata_date |-> TRUE, metadata_note |-> <<>>,
    use_custom_ffmpeg_args |-> FALSE,
    custom_ffmpeg_args |-> "-c:v h264_nvenc -preset fast -crf 0",
    is_rendering |-> FALSE, render_progress |-> 0, status_message |-> <<>>,
    original_settings |-> NoSettings, original_settings_extended |-> NoSettings ]

\* Values a user can type into custom_ffmpeg_args.
FfmpegArgChoices == {"-c:v h264_nvenc -preset fast -crf 0", "-c:v libx265 -crf 28"}

\* A fresh BPL_OT_create_playblast instance: the class attributes.
NewOperator ==
  [ _timer |-> FALSE, _area |-> FALSE, _space |-> FALSE, _region_3d |-> FALSE,
    _original_settings |-> NoSettings, _original_shading |-> "None",
    _original_overlays |-> "None", _original_view_perspective |-> "None",
    _original_use_local_camera |-> "None", _phase |-> "SETUP",
    _last_reported_frame |-> 0, _frame_start |-> 0, _frame_end |-> 0,
    _current_frame |-> 0, _original_render_engine |-> "None",
    _original_cycles_viewport |-> NoSettings, _use_actual_render |-> FALSE,
    _original_cycles_render |-> NoSettings ]

\* hasattr(self, '_original_cycles_render'): the class defines the attribute
\* (as None), so every instance has it.
HasOriginalCyclesRenderAttr == TRUE

(***************************************************************************)
(* State                                                                   *)
(***************************************************************************)
VARIABLES
  scene,       \* the host's property tree
  worlds,      \* bpy.data.worlds: the names of the world data blocks
  props,       \* scene.basedplayblast
  self,        \* the running create-playblast operator instance
  running,     \* the operator is registered as a modal handler
  timer,       \* the window manager holds the operator's event timer
  host,        \* facts of the host: optional attributes, a 3D viewport, a writable disk
  hostRender,  \* the host's render job: "none", "anim" or "still"
  hostJob,     \* the animation job: next frame, output path, frame to return to
  files,       \* video files of the output directory, oldest first
  pngFrames,   \* frames whose *.png file is in <output>/frames
  viewer,      \* the file last handed to the system viewer
  lastEvent,   \* type of the event the modal handler received last
  lastResult,  \* operator, return value and report of the last operator call
  hostCalls,   \* render operators the running operator has called
  pre,         \* the property tree at the start of the last operator call
  assigned,    \* attributes the last invoke / apply has assigned
  ops,         \* number of create-playblast and apply invocations so far
  updater,     \* updater.UpdaterState: the class attributes of the updater
  updateCheck  \* the installed version, the clock, the last response and result

playblastVars == << scene, worlds, props, self, running, timer, host, hostRender,
                    hostJob, files, pngFrames, viewer, lastEvent, lastResult,
                    hostCalls, pre, assigned, ops >>

updaterVars == << updater, updateCheck >>

vars == << scene, worlds, props, self, running, timer, host, hostRender, hostJob,
           files, pngFrames, viewer, lastEvent, lastResult, hostCalls, pre,
           assigned, ops, updater, updateCheck >>

NoJob == [next |-> 0, last |-> 0, out |-> <<>>, back |-> 0, png |-> FALSE]

\* No operator has returned yet.
NoResult ==
  [ op |-> "none", ret |-> "none", report |-> "none", how |-> "none",
    prev |-> <<"none", "none">> ]

\* What an operator call leaves for the user: the operator, its return value,
\* its report, and through which handler it returned.
Result(op, ret, report, how) ==
  [ op |-> op, ret |-> ret, report |-> report, how |-> how,
    prev |-> <<"none", "none">> ]

(***************************************************************************)
(* The updater                                                             *)
(***************************************************************************)
\* class UpdaterState: the state the updater keeps between checks.
NewUpdaterState ==
  [ checking_for_updates |-> FALSE, update_available |-> FALSE,
    update_version |-> <<>>, update_download_url |-> <<>>,
    error_message |-> <<>>, last_check_time |-> 0 ]

\* bl_info["version"] of the installed add-on.
InstalledVersions == { <<0, 3, 0>>, <<0, 4, 0>> }

\* ".".join(parts)
RECURSIVE JoinDots(_)
JoinDots(parts) ==
  IF Len(parts) = 0 THEN <<>>
  ELSE IF Len(parts) = 1 THEN parts[1]
  ELSE parts[1] \o <<".">> \o JoinDots(Tail(parts))

\* get_current_version: ".".join(str(v) for v in version)
get_current_version(version) ==
  JoinDots([i \in 1..Len(version) |-> IntToStr(version[i])])

\* s.split('.'): the parts between the dots, empty parts included.
RECURSIVE SplitDots(_)
SplitDots(s) ==
  IF IndexOf(s, ".") = 0 THEN <<s>>
  ELSE <<SubSeq(s, 1, IndexOf(s, ".") - 1)>>
         \o SplitDots(SubSeq(s, IndexOf(s, ".") + 1, Len(s)))

\* int(n) succeeds on a non-empty string of decimal digits.
IsInt(n) ==
  Len(n) > 0 /\ \A i \in 1..Len(n) : \E d \in 1..10 : DigitChar[d] = n[i]

\* version_tuple_from_string: the integers between the dots, (0, 0, 0) when
\* a part is not an integer.
version_tuple_from_string(version_str) ==
  LET parts == SplitDots(version_str)
  IN  IF \A i \in 1..Len(parts) : IsInt(parts[i])
      THEN [i \in 1..Len(parts) |-> StrToInt(parts[i])]
      ELSE <<0, 0, 0>>

\* tag_name.lstrip('v'): every leading 'v' is removed.
RECURSIVE LStripV(_)
LStripV(tag) ==
  IF Len(tag) > 0 /\ tag[1] = "v" THEN LStripV(Tail(tag)) ELSE tag

\* a > b on tuples of integers: the first differing element decides; a
\* tuple is greater than its proper prefixes.
TupleGreater(a, b) ==
  \E i \in 1..Len(a) :
    /\ \A j \in 1..(i - 1) : j <= Len(b) /\ a[j] = b[j]
    /\ i > Len(b) \/ a[i] > b[i]

\* Tags a release can carry.
ReleaseTags ==
  { <<"v", "0", ".", "3", ".", "0">>, <<"v", "0", ".", "4", ".", "0">>,
    <<"0", ".", "1", "0", ".", "0">>, <<"v", "0", ".", "4">>,
    <<"v", "0", ".", "5", ".", "0", "-", "r", "c">> }

\* An asset of the release with the given tag.
Asset(tag, name) ==
  [ name |-> name, browser_download_url |-> <<"download/">> \o tag \o <<"/">> \o name ]

\* The asset lists a release can carry: none, a zip, notes and then a zip,
\* two zips, notes alone.
AssetLists(tag) ==
  { <<>>,
    <<Asset(tag, <<"addon", ".zip">>)>>,
    <<Asset(tag, <<"notes", ".txt">>), Asset(tag, <<"addon", ".zip">>)>>,
    <<Asset(tag, <<"addon", ".zip">>), Asset(tag, <<"src", ".zip">>)>>,
    <<Asset(tag, <<"notes", ".txt">>)>> }

\* response.json() of the latest release.
Releases ==
  UNION { { [ ok |-> TRUE, tag_name |-> tag, assets |-> assets,
              zipball_url |-> <<"zipball/">> \o tag ] : assets \in AssetLists(tag) } :
          tag \in ReleaseTags }

\* requests.get or raise_for_status raised.
RequestFailed ==
  [ ok |-> FALSE, tag_name |-> <<>>, assets |-> <<>>, zipball_url |-> <<>> ]

\* asset["name"].endswith(".zip")
IsZip(asset) == Len(asset.name) > 0 /\ asset.name[Len(asset.name)] = ".zip"

\* The URL the loop over the assets leaves in update_download_url: the first
\* zip asset's, or what the attribute held before the loop.
UrlAfterAssets(url, assets) ==
  IF \E i \in 1..Len(assets) : IsZip(assets[i])
  THEN assets[CHOOSE i \in 1..Len(assets) :
                /\ IsZip(assets[i])
                /\ \A j \in 1..(i - 1) : ~IsZip(assets[j])].browser_download_url
  ELSE url

\* "if not UpdaterState.update_download_url": the zipball is taken only
\* when the attribute is empty after the loop.
UrlOrZipball(url, release) ==
  IF url = <<>> THEN release.zipball_url ELSE url

\* _check_for_updates_async: the state it leaves and the value it returns.
CheckResult(u, version, response, now) ==
  LET u0      == [u EXCEPT !.checking_for_updates = TRUE, !.error_message = <<>>]
      current == version_tuple_from_string(get_current_version(version))
      latest  == LStripV(response.tag_name)
      newer   == TupleGreater(version_tuple_from_string(latest), current)
      u1      == IF newer
                 THEN [ u0 EXCEPT
                          !.update_available = TRUE,
                          !.update_version = latest,
                          !.update_download_url =
                            UrlOrZipball(UrlAfterAssets(u0.update_download_url,
                                                        response.assets), response) ]
                 ELSE [u0 EXCEPT !.update_available = FALSE]
  IN  IF response.ok
      THEN [ state |-> [u1 EXCEPT !.last_check_time = now,
                                  !.checking_for_updates = FALSE],
             result |-> "True" ]
      ELSE [ state |-> [u0 EXCEPT !.error_message = <<"request failed">>,
                                  !.checking_for_updates = FALSE],
             result |-> "False" ]

\* No check has run: the installed version and the clock.
NoCheck(version) ==
  [ version |-> version, now |-> 0, response |-> RequestFailed, result |-> "none" ]

\* check_for_updates: one check, from the request to the return.
CheckForUpdates ==
  /\ updateCheck.now < MaxChecks
  /\ \E response \in Releases \cup {RequestFailed} :
       LET r == CheckResult(updater, updateCheck.version, response, updateCheck.now + 1)
       IN  /\ updater' = r.state
           /\ updateCheck' = [ updateCheck EXCEPT !.now = @ + 1,
                                 !.response = response, !.result = r.result ]
  /\ UNCHANGED playblastVars

\* A video left in the output directory by an earlier session.
OldVideo == <<"/blast/", "o", "l", "d", ".mp4">>

\* The cases a behaviour starts from: the defaults, varied along one group
\* of properties at a time.
DefaultCase ==
  [ display_mode |-> "SOLID", engine |-> "BLENDER_EEVEE_NEXT", optional |-> TRUE,
    scene_range |-> TRUE, end_frame |-> MaxFrame,
    show_metadata |-> TRUE, metadata_resolution |-> TRUE, note |-> <<>>,
    resolution_mode |-> "SCENE", percentage |-> 100,
    use_custom |-> FALSE, quality |-> "MEDIUM", audio |-> FALSE,
    use_active_camera |-> TRUE, camera_object |-> "NONE", camera |-> "Cam1",
    viewport |-> TRUE, can_mkdir |-> TRUE, old_video |-> FALSE,
    shading |-> "TEXTURED", overlays |-> TRUE, perspective |-> "PERSP",
    preset |-> <<"x","1","9","2","0","y","1","0","8","0">> ]

\* Every display mode under both engines, on a host with and without the
\* attributes only some builds have.
ModeCases ==
  { [DefaultCase EXCEPT !.display_mode = d, !.engine = e] :
      d \in DISPLAY_MODE_ITEMS, e \in {"CYCLES", "BLENDER_EEVEE_NEXT"} }
  \cup
  { [DefaultCase EXCEPT !.display_mode = d[1], !.engine = d[2], !.optional = FALSE] :
      d \in { <<"RENDERED", "CYCLES">>, <<"MATERIAL", "BLENDER_EEVEE_NEXT">>,
              <<"SOLID", "CYCLES">> } }

\* Manual frame ranges of one frame and of several, rendered through the
\* viewport and through Cycles, into an empty and a used output directory.
FrameCases ==
  { [DefaultCase EXCEPT !.scene_range = FALSE, !.end_frame = fe, !.display_mode = d[1],
                        !.engine = d[2], !.old_video = ov] :
      fe \in {2, MaxFrame}, d \in {<<"SOLID", "BLENDER_EEVEE_NEXT">>, <<"RENDERED", "CYCLES">>},
      ov \in BOOLEAN }

MetadataCases ==
  { [DefaultCase EXCEPT !.metadata_resolution = m, !.note = n, !.resolution_mode = r,
                        !.percentage = 50, !.scene_range = FALSE, !.end_frame = 2] :
      m \in BOOLEAN, n \in {<<>>, <<"shot 12">>}, r \in {"SCENE", "PRESET"} }
  \cup
  { [DefaultCase EXCEPT !.note = <<"shot 12">>, !.resolution_mode = "CUSTOM",
                        !.scene_range = FALSE, !.end_frame = 2],
    [DefaultCase EXCEPT !.note = <<"shot 12">>, !.show_metadata = FALSE,
                        !.scene_range = FALSE, !.end_frame = 2] }

EncoderCases ==
  { [DefaultCase EXCEPT !.use_custom = c, !.quality = q] :
      c \in BOOLEAN, q \in {"MEDIUM", "LOSSLESS"} }
  \cup
  { [DefaultCase EXCEPT !.audio = TRUE],
    [DefaultCase EXCEPT !.use_custom = TRUE, !.display_mode = "RENDERED",
                        !.engine = "CYCLES"] }

CameraCases ==
  { [DefaultCase EXCEPT !.use_active_camera = FALSE, !.camera_object = o] :
      o \in {"Cam2", "Cube", "Gone"} }
  \cup
  { [DefaultCase EXCEPT !.camera = "None"],
    [DefaultCase EXCEPT !.viewport = FALSE],
    [DefaultCase EXCEPT !.can_mkdir = FALSE],
    [DefaultCase EXCEPT !.viewport = FALSE, !.scene_range = FALSE, !.end_frame = 2],
    [DefaultCase EXCEPT !.use_active_camera = FALSE, !.camera_object = "Cam2",
                        !.scene_range = FALSE, !.end_frame = 2] }

\* What the user's 3D viewport shows before any operator ran, with a manual
\* range of two frames.
ViewCases ==
  { [DefaultCase EXCEPT !.shading = sh, !.overlays = ov, !.perspective = vp,
                        !.scene_range = FALSE, !.end_frame = 2] :
      sh \in {"TEXTURED", "WIREFRAME"}, ov \in BOOLEAN,
      vp \in {"PERSP", "ORTHO", "CAMERA"} }

\* Every resolution preset, and the scene's and a custom resolution, at a
\* percentage that differs from the scene's, with a manual range of two
\* frames.
ResolutionCases ==
  { [DefaultCase EXCEPT !.resolution_mode = "PRESET", !.preset = q, !.percentage = 50,
                        !.scene_range = FALSE, !.end_frame = 2] :
      q \in RESOLUTION_PRESET_ITEMS }
  \cup
  { [DefaultCase EXCEPT !.resolution_mode = r, !.percentage = 50,
                        !.scene_range = FALSE, !.end_frame = 2] :
      r \in {"SCENE", "CUSTOM"} }

Cases ==
  ModeCases \cup FrameCases \cup MetadataCases \cup EncoderCases \cup CameraCases
    \cup ViewCases \cup ResolutionCases

PropsOf(c) ==
  [ DefaultProps EXCEPT
      !.display_mode = c.display_mode,
      !.use_scene_frame_range = c.scene_range, !.end_frame = c.end_frame,
      !.show_metadata = c.show_metadata, !.metadata_resolution = c.metadata_resolution,
      !.metadata_note = c.note, !.resolution_mode = c.resolution_mode,
      !.resolution_percentage = c.percentage, !.resolution_preset = c.preset,
      !.use_custom_ffmpeg_args = c.use_custom, !.video_quality = c.quality,
      !.include_audio = c.audio, !.use_active_camera = c.use_active_camera,
      !.camera_object = c.camera_object ]

SceneOf(c) ==
  [ UserScene EXCEPT !.render_engine = c.engine, !.scene_camera = c.camera,
                     !.view_shading_type = c.shading,
                     !.view_overlay_show_overlays = c.overlays,
                     !.view_view_perspective = c.perspective ]

\* The playblast side of the initial state, for case c.
CaseInit(c) ==
  /\ scene = SceneOf(c)
  /\ props = PropsOf(c)
  /\ host = [optional |-> c.optional, viewport |-> c.viewport, can_mkdir |-> c.can_mkdir]
  /\ files = IF c.old_video THEN <<OldVideo>> ELSE <<>>
  /\ worlds = UserWorlds
  /\ self = NewOperator
  /\ running = FALSE
  /\ timer = FALSE
  /\ hostRender = "none"
  /\ hostJob = NoJob
  /\ pngFrames = {}
  /\ viewer = <<>>
  /\ lastEvent = "NONE"
  /\ lastResult = NoResult
  /\ hostCalls = <<>>
  /\ pre = SceneOf(c)
  /\ assigned = {}
  /\ ops = 0

Init ==
  /\ \E c \in Cases : CaseInit(c)
  /\ updater = NewUpdaterState
  /\ updateCheck = NoCheck(<<0, 3, 0>>)

\* The initial state of the updater, whatever version is installed.
UpdaterInit ==
  /\ CaseInit(DefaultCase)
  /\ updater = NewUpdaterState
  /\ \E version \in InstalledVersions : updateCheck = NoCheck(version)

(***************************************************************************)
(* Snapshots                                                               *)
(***************************************************************************)
\* The keys of self._original_settings (invoke) that cleanup writes back.
OriginalSettingsKeys ==
  { "render_filepath", "render_resolution_x", "render_resolution_y",
    "render_resolution_percentage", "render_use_file_extension",
    "render_use_overwrite", "render_use_placeholder", "scene_camera",
    "scene_frame_start", "scene_frame_end", "image_file_format", "image_color_mode",
    "prefs_render_display_type", "render_use_stamp", "render_use_stamp_date",
    "render_use_stamp_time", "render_use_stamp_frame", "render_use_stamp_camera",
    "render_use_stamp_lens", "render_use_stamp_scene", "render_use_stamp_note",
    "render_stamp_note_text" }

\* A faulty variant: cleanup leaves the frame range as the run set it.
CleanupRestoredKeysNoFrameRange ==
  OriginalSettingsKeys \ {"scene_frame_start", "scene_frame_end"}

\* The attributes cleanup assigns from self._original_settings.
CleanupRestoredKeys == OriginalSettingsKeys

\* The render, image, encoder, world and metadata keys of the JSON snapshot.
RenderSnapshotKeys ==
  { "render_engine", "render_filepath", "render_resolution_x", "render_resolution_y",
    "render_resolution_percentage", "render_use_file_extension",
    "render_use_overwrite", "render_use_placeholder", "scene_frame_start",
    "scene_frame_end", "scene_frame_step", "scene_frame_current",
    "render_film_transparent", "render_use_simplify", "render_simplify_subdivision",
    "render_simplify_child_particles", "render_simplify_volumes",
    "render_use_motion_blur", "prefs_render_display_type", "image_file_format",
    "image_color_mode", "image_compression", "ffmpeg_format", "ffmpeg_codec",
    "ffmpeg_constant_rate_factor", "ffmpeg_audio_codec", "ffmpeg_audio_bitrate",
    "scene_world", "scene_use_nodes", "render_use_stamp", "render_use_stamp_date",
    "render_use_stamp_time", "render_use_stamp_frame", "render_use_stamp_camera",
    "render_use_stamp_lens", "render_use_stamp_scene", "render_use_stamp_note",
    "render_stamp_note_text" }

\* The 'cycles' dictionary of the JSON snapshot.
CyclesSnapshotKeys ==
  { "cycles_device", "cycles_feature_set", "cycles_samples", "cycles_preview_samples",
    "cycles_aa_samples", "cycles_use_denoising", "cycles_use_adaptive_sampling",
    "cycles_adaptive_threshold", "cycles_adaptive_min_samples",
    "cycles_sample_clamp_direct", "cycles_sample_clamp_indirect",
    "cycles_light_sampling_threshold", "cycles_sample_all_lights_direct",
    "cycles_sample_all_lights_indirect", "cycles_max_bounces",
    "cycles_diffuse_bounces", "cycles_glossy_bounces", "cycles_transmission_bounces",
    "cycles_volume_bounces", "cycles_transparent_max_bounces",
    "cycles_caustics_reflective", "cycles_caustics_refractive", "cycles_filter_type",
    "cycles_pixel_filter_width", "cycles_use_persistent_data", "cycles_tile_size",
    "cycles_use_auto_tile", "cycles_progressive", "cycles_blur_glossy",
    "cycles_use_transparent_shadows" }

\* The 'eevee' dictionary of the JSON snapshot of apply_blast_settings.
EeveeSnapshotKeys ==
  { "eevee_taa_render_samples", "eevee_use_bloom", "eevee_use_ssr",
    "eevee_use_ssr_refraction", "eevee_ssr_max_roughness", "eevee_ssr_thickness",
    "eevee_ssr_border_fade", "eevee_ssr_firefly_fac", "eevee_use_motion_blur",
    "eevee_use_volumetric_lights", "eevee_volumetric_samples",
    "eevee_gi_diffuse_bounces", "eevee_gi_irradiance_smoothing",
    "eevee_gi_glossy_clamp", "eevee_use_persistent_data", "eevee_shadow_cube_size",
    "eevee_shadow_cascade_size", "eevee_use_soft_shadows", "eevee_use_shadows",
    "eevee_use_gtao", "eevee_shadow_ray_count", "eevee_shadow_step_count",
    "eevee_fast_gi_method", "eevee_fast_gi_ray_count", "eevee_fast_gi_step_count",
    "eevee_fast_gi_quality", "eevee_fast_gi_distance" }

\* The 'workbench' dictionary of the JSON snapshot of apply_blast_settings.
WorkbenchSnapshotKeys ==
  { "display_shading_type", "display_shading_light", "display_shading_color_type",
    "display_render_aa", "display_shading_show_cavity",
    "display_shading_show_object_outline", "display_shading_show_specular_highlight",
    "display_shading_use_dof" }

\* The states of the scene's light that apply_blast_settings stores.
LightKeys ==
  { "light_hide_viewport", "light_hide_render", "light_visible_camera",
    "light_visible_diffuse", "light_visible_glossy", "light_visible_transmission",
    "light_visible_volume_scatter" }

\* The snapshot invoke stores in props.original_settings.
InvokeSnapshotKeys == RenderSnapshotKeys \cup CyclesSnapshotKeys

\* The snapshot apply_blast_settings stores in props.original_settings.
ApplySnapshotKeys ==
  RenderSnapshotKeys \cup CyclesSnapshotKeys \cup EeveeSnapshotKeys
    \cup WorkbenchSnapshotKeys

\* json.dumps(make_json_serializable(...)) read back by json.loads: the values
\* are strings, numbers, booleans and lists of them, which the round trip
\* keeps; the world is stored by name (scene_world already is the name).
JsonSnapshot(s, keys) == Restrict(s, keys)

(***************************************************************************)
(* BPL_OT_create_playblast.invoke                                          *)
(***************************************************************************)
FrameStartOf(p, s) == IF p.use_scene_frame_range THEN s.scene_frame_start ELSE p.start_frame

FrameEndOf(p, s) == IF p.use_scene_frame_range THEN s.scene_frame_end ELSE p.end_frame

ManualRangeWrites(p) ==
  IF ~p.use_scene_frame_range
  THEN [scene_frame_start |-> p.start_frame, scene_frame_end |-> p.end_frame]
  ELSE NoWrites

\* self._original_settings: taken after the manual range was written, with
\* the frame range read before it.
CaptureOriginalSettings(s0, s1) ==
  [ a \in OriginalSettingsKeys |->
      IF a \in {"scene_frame_start", "scene_frame_end"} THEN s0[a] ELSE s1[a] ]

\* A faulty variant: the two numbers of the preset are exchanged, and the
\* percentage is written only with a preset or custom resolution.
ResolutionWritesSwapped(p) ==
  IF p.resolution_mode = "PRESET"
  THEN [ render_resolution_x |-> PresetY(p.resolution_preset),
         render_resolution_y |-> PresetX(p.resolution_preset),
         render_resolution_percentage |-> p.resolution_percentage ]
  ELSE IF p.resolution_mode = "CUSTOM"
  THEN [ render_resolution_x |-> p.resolution_x,
         render_resolution_y |-> p.resolution_y,
         render_resolution_percentage |-> p.resolution_percentage ]
  ELSE NoWrites

ResolutionWrites(p) ==
  ( IF p.resolution_mode = "PRESET"
    THEN [ render_resolution_x |-> PresetX(p.resolution_preset),
           render_resolution_y |-> PresetY(p.resolution_preset) ]
    ELSE IF p.resolution_mode = "CUSTOM"
    THEN [ render_resolution_x |-> p.resolution_x,
           render_resolution_y |-> p.resolution_y ]
    ELSE NoWrites )
  @@ [render_resolution_percentage |-> p.resolution_percentage]

\* The encoder configuration: format, codec, quality and audio.
EncoderWrites(p) ==
  [ image_file_format |-> "FFMPEG", ffmpeg_format |-> p.video_format,
    ffmpeg_codec |-> p.video_codec,
    ffmpeg_constant_rate_factor |-> get_ffmpeg_quality(p.video_quality) ]
  @@ ( IF p.include_audio
       THEN [ ffmpeg_audio_codec |-> p.audio_codec,
              ffmpeg_audio_bitrate |-> p.audio_bitrate ]
       ELSE [ ffmpeg_audio_codec |-> "NONE" ] )

\* os.path.join(output_dir, file_name + video_ext)
VideoPath(p, fs, fe) ==
  p.output_path \o BlastFileName(p.file_name, fs, fe)
    \o <<get_file_extension(p.video_format)>>

OutputWrites(p, fs, fe) ==
  [ render_filepath |-> VideoPath(p, fs, fe), render_use_file_extension |-> TRUE,
    render_use_overwrite |-> TRUE, render_use_placeholder |-> FALSE ]

SelectedCamera(p) == ~p.use_active_camera /\ p.camera_object # "NONE"

CameraFound(p) ==
  p.camera_object \in DOMAIN SceneObjects /\ SceneObjects[p.camera_object] = "CAMERA"

CameraWrites(p) ==
  IF SelectedCamera(p) /\ CameraFound(p) THEN [scene_camera |-> p.camera_object]
  ELSE NoWrites

CameraError(p, s) ==
  IF SelectedCamera(p) THEN ~CameraFound(p) ELSE s.scene_camera = "None"

\* The note text: the user's note, then the resolution line when enabled.
StampNote(p, s) ==
  p.metadata_note \o
    ( IF p.metadata_resolution
      THEN ResolutionLine(s.render_resolution_x, s.render_resolution_y,
                          s.render_resolution_percentage)
      ELSE <<>> )

\* "if props.metadata_note:" - the note is written when the user's note is
\* not empty.
WritesNote(p) == p.metadata_note # <<>>

MetadataWrites(p, s) ==
  IF p.show_metadata
  THEN [ render_use_stamp |-> TRUE, render_use_stamp_date |-> p.metadata_date,
         render_use_stamp_time |-> p.metadata_date,
         render_use_stamp_frame |-> p.metadata_frame,
         render_use_stamp_camera |-> p.metadata_camera,
         render_use_stamp_lens |-> p.metadata_lens,
         render_use_stamp_scene |-> p.metadata_scene ]
       @@ ( IF WritesNote(p)
            THEN [ render_use_stamp_note |-> TRUE,
                   render_stamp_note_text |-> StampNote(p, s) ]
            ELSE NoWrites )
  ELSE [ render_use_stamp |-> FALSE ]

ViewportWrites(p, s) ==
  ( IF s.view_shading_type # p.display_mode
    THEN [view_shading_type |-> p.display_mode] ELSE NoWrites )
  @@ ( IF p.auto_disable_overlays
       THEN [view_overlay_show_overlays |-> FALSE] ELSE NoWrites )
  @@ [ view_view_perspective |-> "CAMERA", view_use_local_camera |-> FALSE ]
  @@ ( IF p.display_mode \in {"SOLID", "MATERIAL"}
       THEN [ view_shading_color_type |-> "MATERIAL", view_shading_light |-> "STUDIO" ]
       ELSE NoWrites )

\* RENDERED mode with the Cycles engine renders frames with render.render.
UsesActualRender(p, s) == p.display_mode = "RENDERED" /\ s.render_engine = "CYCLES"

\* os.path.join(frame_output_dir, file_name + "_")
FramePath(p, fs, fe) ==
  p.output_path \o <<"frames/">> \o BlastFileName(p.file_name, fs, fe) \o <<"_">>

CyclesRenderWrites(p, fs, fe) ==
  [ image_file_format |-> "PNG", image_color_mode |-> "RGBA",
    image_compression |-> 15, render_filepath |-> FramePath(p, fs, fe),
    cycles_samples |-> 8, cycles_use_denoising |-> FALSE, cycles_max_bounces |-> 2,
    cycles_diffuse_bounces |-> 1, cycles_glossy_bounces |-> 1,
    cycles_transmission_bounces |-> 1, cycles_volume_bounces |-> 0,
    cycles_use_adaptive_sampling |-> TRUE, cycles_adaptive_threshold |-> "0.5" ]

\* The Cycles settings invoke stores in self._original_cycles_render: only
\* when the instance lacks the attribute.
CyclesRenderKeys ==
  { "cycles_samples", "cycles_use_denoising", "cycles_max_bounces",
    "cycles_diffuse_bounces", "cycles_glossy_bounces", "cycles_transmission_bounces",
    "cycles_volume_bounces", "cycles_use_adaptive_sampling",
    "cycles_adaptive_threshold" }

\* What invoke stores in self._original_cycles_render before it lowers the
\* Cycles settings.
StoredCyclesRender(s) ==
  IF ~HasOriginalCyclesRenderAttr THEN Restrict(s, CyclesRenderKeys) ELSE NoSettings

(***************************************************************************)
(* BPL_OT_create_playblast.cleanup                                         *)
(***************************************************************************)
\* The viewport attributes cleanup writes back.
CleanupViewWrites(inst) ==
  IF inst._space
  THEN [ view_shading_type |-> inst._original_shading,
         view_overlay_show_overlays |-> inst._original_overlays ]
       @@ ( IF inst._region_3d
            THEN [ view_view_perspective |-> inst._original_view_perspective,
                   view_use_local_camera |-> inst._original_use_local_camera ]
            ELSE NoWrites )
  ELSE NoWrites

\* PRIMARY RESTORATION: from self._original_settings.
CleanupPrimaryWrites(inst) ==
  IF DOMAIN inst._original_settings # {}
  THEN Restrict(inst._original_settings, CleanupRestoredKeys)
  ELSE NoWrites

\* The engine and the Cycles settings the operator stored, if it stored any.
CleanupEngineWrites(inst) ==
  ( IF inst._original_render_engine # "None"
    THEN [render_engine |-> inst._original_render_engine] ELSE NoWrites )
  @@ inst._original_cycles_viewport @@ inst._original_cycles_render

\* SECONDARY RESTORATION: from the JSON snapshot, only when the operator
\* holds no settings of its own.
UsesSecondaryRestoration(inst, p) ==
  DOMAIN inst._original_settings = {} /\ DOMAIN p.original_settings # {}

CleanupSecondaryWrites(inst, p, w) ==
  IF UsesSecondaryRestoration(inst, p)
  THEN [ a \in { k \in DOMAIN p.original_settings \cap InvokeSnapshotKeys :
                   k = "scene_world" =>
                     (p.original_settings[k] = "None" \/ p.original_settings[k] \in w) }
           |-> p.original_settings[a] ]
  ELSE NoWrites

CleanupScene(inst, p, s, w) ==
  Assign(Assign(Assign(Assign(s, CleanupViewWrites(inst)), CleanupPrimaryWrites(inst)),
                CleanupEngineWrites(inst)),
         CleanupSecondaryWrites(inst, p, w))

CleanupProps(inst, p) ==
  [ p EXCEPT !.is_rendering = FALSE, !.render_progress = 0, !.status_message = <<>>,
             !.original_settings =
               IF UsesSecondaryRestoration(inst, p) THEN NoSettings ELSE @ ]

(***************************************************************************)
(* invoke, continued: the handler as a whole                               *)
(***************************************************************************)
\* The result of invoke on properties p and property tree s0: the return
\* value, the report, and the state it leaves.
InvokeResult(p, s0, w, has_viewport, makedirs_ok) ==
  LET fs    == FrameStartOf(p, s0)
      fe    == FrameEndOf(p, s0)
      w1    == ManualRangeWrites(p)
      s1    == Assign(s0, w1)
      w2    == [prefs_render_display_type |-> "NONE"]
      s2    == Assign(s1, w2)
      inst0 == [ NewOperator EXCEPT !._frame_start = fs, !._frame_end = fe,
                   !._current_frame = s0.scene_frame_current,
                   !._original_settings = CaptureOriginalSettings(s0, s1) ]
      inst1 == [ inst0 EXCEPT !._area = TRUE, !._space = TRUE, !._region_3d = TRUE,
                   !._original_view_perspective = s2.view_view_perspective,
                   !._original_use_local_camera = s2.view_use_local_camera,
                   !._original_shading = s2.view_shading_type,
                   !._original_overlays = s2.view_overlay_show_overlays ]
      p1    == IF DOMAIN p.original_settings = {}
               THEN [p EXCEPT !.original_settings = JsonSnapshot(s2, InvokeSnapshotKeys)]
               ELSE p
      w3    == ResolutionWrites(p1)
      s3    == Assign(s2, w3)
      w4    == EncoderWrites(p1) @@ OutputWrites(p1, fs, fe) @@ CameraWrites(p1)
      s4    == Assign(s3, w4)
      w5    == ManualRangeWrites(p1) @@ MetadataWrites(p1, s4)
      s5    == Assign(s4, w5)
      w6    == ViewportWrites(p1, s5)
      s6    == Assign(s5, w6)
      cyc   == UsesActualRender(p1, s6)
      w7    == IF cyc THEN CyclesRenderWrites(p1, fs, fe) ELSE NoWrites
      s7    == Assign(s6, w7)
      inst2 == [ inst1 EXCEPT !._use_actual_render = cyc,
                   !._original_cycles_render =
                     IF cyc THEN StoredCyclesRender(s6) ELSE NoSettings,
                   !._timer = TRUE ]
      base  == DOMAIN w1 \cup DOMAIN w2
  IN  IF ~has_viewport
      THEN [ ret |-> "CANCELLED", report |-> "No 3D viewport found", scene |-> s2,
             props |-> p, self |-> NewOperator, assigned |-> base, cleaned |-> FALSE ]
      ELSE IF ~makedirs_ok
      THEN [ ret |-> "CANCELLED", report |-> "Error creating playblast",
             scene |-> CleanupScene(inst1, p1, s3, w), props |-> CleanupProps(inst1, p1),
             self |-> NewOperator, assigned |-> base \cup DOMAIN w3, cleaned |-> TRUE ]
      ELSE IF CameraError(p1, s4)
      THEN [ ret |-> "CANCELLED",
             report |-> IF SelectedCamera(p1) THEN "Selected camera not found or not a camera"
                        ELSE "No active camera in scene",
             scene |-> CleanupScene(inst1, p1, s4, w), props |-> CleanupProps(inst1, p1),
             self |-> NewOperator,
             assigned |-> base \cup DOMAIN w3 \cup DOMAIN w4, cleaned |-> TRUE ]
      ELSE [ ret |-> "RUNNING_MODAL", report |-> "none", scene |-> s7, props |-> p1,
             self |-> inst2,
             assigned |-> base \cup DOMAIN w3 \cup DOMAIN w4 \cup DOMAIN w5
                             \cup DOMAIN w6 \cup DOMAIN w7,
             cleaned |-> FALSE ]

\* The user presses "Create Playblast".
Invoke ==
  /\ ~running
  /\ ops < MaxOps
  /\ LET r == InvokeResult(props, scene, worlds, host.viewport, host.can_mkdir)
     IN  /\ scene' = r.scene
         /\ props' = r.props
         /\ self' = r.self
         /\ running' = (r.ret = "RUNNING_MODAL")
         /\ timer' = (r.ret = "RUNNING_MODAL")
         /\ assigned' = r.assigned
         /\ lastResult' = Result("create_playblast", r.ret, r.report, "invoke")
  /\ pre' = scene
  /\ hostCalls' = <<>>
  /\ lastEvent' = "NONE"
  /\ ops' = ops + 1
  /\ UNCHANGED << worlds, host, hostRender, hostJob, files, pngFrames, viewer >>
  /\ UNCHANGED updaterVars

(***************************************************************************)
(* The host's render job                                                   *)
(***************************************************************************)
\* Move path f to the end of the directory listing: it is the newest file.
Touch(fls, f) == SelectSeq(fls, LAMBDA g : g # f) \o <<f>>

\* bpy.ops.render.render / render.opengl with INVOKE_DEFAULT, animation=True:
\* the host starts a job unless one is running; the job reads the frame
\* range, the output path and the frame to return to when it starts.
StartAnimation(hr, job, s, png) ==
  IF hr = "none"
  THEN [ hostRender |-> "anim",
         hostJob |-> [ next |-> s.scene_frame_start, last |-> s.scene_frame_end,
                       out |-> s.render_filepath,
                       back |-> s.scene_frame_current, png |-> png ] ]
  ELSE [ hostRender |-> hr, hostJob |-> job ]

\* The job renders its next frame: the playhead moves to it; a PNG job
\* writes the frame's file, a video job writes into its video file.
HostRenderFrame ==
  /\ hostRender = "anim"
  /\ hostJob.next <= hostJob.last
  /\ scene' = [scene EXCEPT !.scene_frame_current = hostJob.next]
  /\ hostJob' = [hostJob EXCEPT !.next = @ + 1]
  /\ pngFrames' = IF hostJob.png THEN pngFrames \cup {hostJob.next} ELSE pngFrames
  /\ files' = IF hostJob.png THEN files ELSE Touch(files, hostJob.out)
  /\ UNCHANGED << worlds, props, self, running, timer, host, hostRender, viewer,
                  lastEvent, lastResult, hostCalls, pre, assigned, ops >>
  /\ UNCHANGED updaterVars

\* The job has rendered its last frame: the playhead returns to where it was.
HostRenderEnd ==
  /\ hostRender = "anim"
  /\ hostJob.next > hostJob.last
  /\ scene' = [scene EXCEPT !.scene_frame_current = hostJob.back]
  /\ hostRender' = "none"
  /\ hostJob' = NoJob
  /\ UNCHANGED << worlds, props, self, running, timer, host, files, pngFrames, viewer,
                  lastEvent, lastResult, hostCalls, pre, assigned, ops >>
  /\ UNCHANGED updaterVars

\* A still render the operator started comes to its end.
HostStillDone ==
  /\ hostRender = "still"
  /\ hostRender' = "none"
  /\ UNCHANGED << scene, worlds, props, self, running, timer, host, hostJob, files,
                  pngFrames, viewer, lastEvent, lastResult, hostCalls, pre, assigned, ops >>
  /\ UNCHANGED updaterVars

(***************************************************************************)
(* BPL_OT_create_playblast.modal                                           *)
(***************************************************************************)
\* f"Rendering frame {current_frame}/{self._frame_end} ({int(progress)}%)"
RenderingStatus(cur, fe, progress) ==
  <<"Rendering frame ">> \o IntToStr(cur) \o <<"/">> \o IntToStr(fe) \o <<" (">>
    \o IntToStr(progress) \o <<"%)">>

\* min((frame_progress / total_frames) * 100, 100), its integer part.
Progress(cur, fs, fe) ==
  LET total == fe - fs + 1
      pct   == IF total > 0 THEN ((cur - fs) * 100) \div total ELSE 100
  IN  IF pct < 100 THEN pct ELSE 100

\* The path the RENDER phase polls for the video of an OpenGL render.
PolledPath(p, s) == s.render_filepath \o <<get_file_extension(p.video_format)>>

\* render_complete of the RENDER phase.
RenderComplete(inst, p, s, fls, png) ==
  IF inst._use_actual_render
  THEN Cardinality(png) >= inst._frame_end - inst._frame_start + 1
  ELSE \E i \in 1..Len(fls) : fls[i] = PolledPath(p, s)

\* The first completion test: the playhead looped back, or the output is there.
LoopedBackOrComplete(inst, cur, last, complete) ==
  (cur = inst._frame_start /\ last >= inst._frame_end) \/ complete

\* The second completion test: "look for final frame minus one".
ReachedFinalFrame(inst, cur) == cur >= inst._frame_end - 1

\* The encoder a run uses: the host's FFMPEG settings for a viewport render,
\* the fixed command of convert_frames_to_video for rendered frames.
EncoderOf(inst, p, s) ==
  IF inst._use_actual_render
  THEN [ format |-> get_file_extension(p.video_format), codec |-> "libx264",
         quality |-> "18", audio |-> "NONE" ]
  ELSE [ format |-> s.ffmpeg_format, codec |-> s.ffmpeg_codec,
         quality |-> s.ffmpeg_constant_rate_factor, audio |-> s.ffmpeg_audio_codec ]

\* A TIMER event in the SETUP phase: start the animation render.
ModalTimerSetup ==
  /\ running
  /\ self._phase = "SETUP"
  /\ props' = [ props EXCEPT !.render_progress = 0,
                  !.status_message = <<"Setting up playblast...">>,
                  !.is_rendering = TRUE ]
  /\ self' = [self EXCEPT !._phase = "RENDER"]
  /\ scene' = IF self._space /\ self._region_3d
              THEN [scene EXCEPT !.view_view_perspective = "CAMERA"] ELSE scene
  /\ LET st == StartAnimation(hostRender, hostJob, scene, self._use_actual_render)
     IN  hostRender' = st.hostRender /\ hostJob' = st.hostJob
  /\ hostCalls' = Append(hostCalls, IF self._use_actual_render THEN "render_animation"
                                    ELSE "opengl_animation")
  /\ lastEvent' = "TIMER"
  /\ lastResult' = Result("create_playblast", "PASS_THROUGH", "none", "modal")
  /\ UNCHANGED << worlds, running, timer, host, files, pngFrames, viewer, pre,
                  assigned, ops >>
  /\ UNCHANGED updaterVars

\* A faulty variant: completion sends the operator back to SETUP.
PhaseAfterRenderRestart(done) == IF done THEN "SETUP" ELSE "RENDER"

\* The phase the RENDER tick leaves the operator in.
PhaseAfterRender(done) == IF done THEN "COMPLETE" ELSE "RENDER"

\* A TIMER event in the RENDER phase: report progress, test for completion.
ModalTimerRender ==
  /\ running
  /\ self._phase = "RENDER"
  /\ LET cur      == scene.scene_frame_current
         changed  == cur # self._last_reported_frame
         last     == cur
         progress == Progress(cur, self._frame_start, self._frame_end)
         p1       == IF changed /\ cur >= self._frame_start
                     THEN [ props EXCEPT !.render_progress = progress,
                              !.status_message =
                                RenderingStatus(cur, self._frame_end, progress) ]
                     ELSE props
         complete == RenderComplete(self, props, scene, files, pngFrames)
         first    == LoopedBackOrComplete(self, cur, last, complete)
         second   == ~first /\ ReachedFinalFrame(self, cur)
         done     == first \/ second
     IN  /\ self' = [ self EXCEPT !._last_reported_frame = last,
                        !._phase = PhaseAfterRender(done) ]
         /\ props' = IF done
                     THEN [ p1 EXCEPT !.render_progress = 100,
                              !.status_message = <<"Finalizing output...">> ]
                     ELSE p1
         /\ scene' = IF second
                     THEN [scene EXCEPT !.scene_frame_current = self._frame_end]
                     ELSE scene
  /\ lastEvent' = "TIMER"
  /\ lastResult' = Result("create_playblast", "PASS_THROUGH", "none", "modal")
  /\ UNCHANGED << worlds, running, timer, host, hostRender, hostJob, files, pngFrames,
                  viewer, hostCalls, pre, assigned, ops >>
  /\ UNCHANGED updaterVars

(***************************************************************************)
(* finish and convert_frames_to_video                                      *)
(***************************************************************************)
\* video_output of convert_frames_to_video.
ConvertOutput(inst, p) == VideoPath(p, inst._frame_start, inst._frame_end)

\* FFmpeg can succeed only when there are frames to read.
ConvertSucceeds(inst, png, ffmpeg_ok) ==
  inst._use_actual_render /\ ffmpeg_ok /\ png # {}

\* The directory listing after convert_frames_to_video.
ConvertFiles(inst, p, fls, png, ffmpeg_ok) ==
  IF ConvertSucceeds(inst, png, ffmpeg_ok) THEN Touch(fls, ConvertOutput(inst, p))
  ELSE fls

\* glob.glob(os.path.join(output_dir, "*" + file_ext)): the files directly
\* in the output directory whose name ends with the extension.
GlobVideos(p, fls) ==
  SelectSeq(fls, LAMBDA f :
    /\ Len(f) > Len(p.output_path) + 1
    /\ SubSeq(f, 1, Len(p.output_path)) = p.output_path
    /\ f[Len(f)] = get_file_extension(p.video_format)
    /\ \A i \in (Len(p.output_path) + 1)..(Len(f) - 1) : f[i] # "frames/")

\* max(all_files, key=os.path.getmtime)
LatestFile(all_files) == all_files[Len(all_files)]

\* A TIMER event in the COMPLETE phase: finish, clean up, FINISHED.
ModalTimerComplete ==
  /\ running
  /\ self._phase = "COMPLETE"
  /\ \E ffmpeg_ok \in BOOLEAN :
       LET ok        == ConvertSucceeds(self, pngFrames, ffmpeg_ok)
           fls       == ConvertFiles(self, props, files, pngFrames, ffmpeg_ok)
           all_files == GlobVideos(props, fls)
           p1        == IF all_files # <<>>
                        THEN [props EXCEPT !.last_playblast_file = LatestFile(all_files)]
                        ELSE props
       IN  /\ self._use_actual_render \/ ffmpeg_ok
           /\ files' = fls
           /\ pngFrames' = IF ok THEN {} ELSE pngFrames
           /\ viewer' = IF all_files # <<>> THEN LatestFile(all_files) ELSE viewer
           /\ props' = CleanupProps(self, p1)
           /\ scene' = CleanupScene(self, p1, scene, worlds)
           /\ lastResult' = Result("create_playblast", "FINISHED",
                                   IF self._use_actual_render /\ ~ok
                                   THEN "Video conversion failed" ELSE "none",
                                   "modal")
  /\ running' = FALSE
  /\ timer' = FALSE
  /\ lastEvent' = "TIMER"
  /\ UNCHANGED << worlds, self, host, hostRender, hostJob, hostCalls, pre, assigned, ops >>
  /\ UNCHANGED updaterVars

\* What the host does with render.render('INVOKE_DEFAULT', animation=False):
\* with no job running it starts a still render; with the animation job
\* running the call starts nothing, and whether that job goes on or was
\* stopped by the key press is the host's choice.
EscRenderOutcomes(hr) ==
  IF hr = "none" THEN {"still"} ELSE IF hr = "anim" THEN {"anim", "none"} ELSE {hr}

\* An ESC event: remove the timer, call the still render, clean up, CANCELLED.
ModalEsc ==
  /\ running
  /\ timer' = FALSE
  /\ \E hr \in EscRenderOutcomes(hostRender) :
       /\ hostRender' = hr
       /\ hostJob' = IF hr = "anim" THEN hostJob ELSE NoJob
  /\ hostCalls' = Append(hostCalls, "render_still")
  /\ props' = CleanupProps(self, props)
  /\ scene' = CleanupScene(self, props, scene, worlds)
  /\ running' = FALSE
  /\ lastEvent' = "ESC"
  /\ lastResult' = Result("create_playblast", "CANCELLED", "none", "modal")
  /\ UNCHANGED << worlds, self, host, files, pngFrames, viewer, pre, assigned, ops >>
  /\ UNCHANGED updaterVars

\* Any other event: PASS_THROUGH, nothing changes.
ModalOther ==
  /\ running
  /\ lastEvent' = "MOUSEMOVE"
  /\ lastResult' = Result("create_playblast", "PASS_THROUGH", "none", "modal")
  /\ UNCHANGED << scene, worlds, props, self, running, timer, host, hostRender,
                  hostJob, files, pngFrames, viewer, hostCalls, pre, assigned, ops >>
  /\ UNCHANGED updaterVars

(***************************************************************************)
(* The panel                                                               *)
(***************************************************************************)
\* BPL_PT_main_panel.draw shows the custom_ffmpeg_args field only while
\* use_custom_ffmpeg_args is set: the user types other arguments.
SetCustomFfmpegArgs ==
  /\ ~running
  /\ props.use_custom_ffmpeg_args
  /\ \E a \in FfmpegArgChoices \ {props.custom_ffmpeg_args} :
       props' = [props EXCEPT !.custom_ffmpeg_args = a]
  /\ UNCHANGED << scene, worlds, self, running, timer, host, hostRender, hostJob,
                  files, pngFrames, viewer, lastEvent, lastResult, hostCalls, pre,
                  assigned, ops >>
  /\ UNCHANGED updaterVars

(***************************************************************************)
(* BPL_OT_apply_blast_settings.execute                                     *)
(***************************************************************************)
\* The writes the host accepts: an attribute the build lacks fails hasattr.
Present(w, has_optional) ==
  Restrict(w, IF has_optional THEN DOMAIN w ELSE DOMAIN w \ OptionalAttrs)

\* RENDERED mode, EEVEE engine.
RenderedEeveeWrites ==
  [ eevee_taa_render_samples |-> 4, eevee_shadow_cube_size |-> "512",
    eevee_use_soft_shadows |-> TRUE, eevee_use_bloom |-> FALSE,
    eevee_use_ssr |-> FALSE, eevee_use_motion_blur |-> FALSE,
    eevee_use_volumetric_lights |-> FALSE, eevee_gi_diffuse_bounces |-> 1,
    eevee_gi_irradiance_smoothing |-> "0.1", eevee_gi_glossy_clamp |-> "0.0",
    eevee_ssr_max_roughness |-> "0.5", eevee_ssr_thickness |-> "0.2",
    eevee_ssr_border_fade |-> "0.075", eevee_ssr_firefly_fac |-> "10.0",
    eevee_shadow_ray_count |-> 1, eevee_shadow_step_count |-> 2,
    eevee_fast_gi_method |-> "GLOBAL_ILLUMINATION", eevee_fast_gi_ray_count |-> 1,
    eevee_fast_gi_step_count |-> 2, eevee_fast_gi_quality |-> "0.25",
    eevee_fast_gi_distance |-> "1.0", eevee_use_persistent_data |-> TRUE ]

\* RENDERED mode, Cycles engine.
RenderedCyclesWrites ==
  [ cycles_samples |-> 8, cycles_use_denoising |-> FALSE, cycles_max_bounces |-> 2,
    cycles_diffuse_bounces |-> 1, cycles_glossy_bounces |-> 1,
    cycles_transmission_bounces |-> 1, cycles_volume_bounces |-> 0,
    cycles_caustics_reflective |-> FALSE, cycles_caustics_refractive |-> FALSE,
    cycles_pixel_filter_width |-> "0.01", cycles_ao_bounces |-> 1,
    cycles_ao_bounces_render |-> 1, cycles_use_adaptive_sampling |-> TRUE,
    cycles_adaptive_threshold |-> "0.8", cycles_adaptive_min_samples |-> 0,
    cycles_light_sampling_threshold |-> "1.0", cycles_sample_clamp_direct |-> "0.0",
    cycles_sample_clamp_indirect |-> "0.0", cycles_blur_glossy |-> "0.0",
    cycles_sample_all_lights_direct |-> FALSE,
    cycles_sample_all_lights_indirect |-> FALSE, cycles_filter_type |-> "BOX",
    cycles_preview_samples |-> 1, cycles_aa_samples |-> 1,
    cycles_use_transparent_shadows |-> FALSE, cycles_transparent_max_bounces |-> 0,
    cycles_tile_size |-> 64, cycles_use_auto_tile |-> TRUE,
    cycles_progressive |-> "PATH", cycles_use_persistent_data |-> TRUE,
    cycles_device |-> "GPU", cycles_feature_set |-> "SUPPORTED",
    cycles_use_cpu_device |-> FALSE ]

\* RENDERED mode, whatever the engine.
RenderedGeneralWrites ==
  [ render_use_simplify |-> TRUE, render_simplify_subdivision |-> 1,
    render_simplify_child_particles |-> "0.5", render_simplify_volumes |-> "0.5",
    scene_use_nodes |-> FALSE, render_texture_limit |-> "2048",
    render_use_motion_blur |-> FALSE ]

RenderedWrites(s) ==
  ( IF s.render_engine \in {"BLENDER_EEVEE", "BLENDER_EEVEE_NEXT"}
    THEN RenderedEeveeWrites
    ELSE IF s.render_engine = "CYCLES" THEN RenderedCyclesWrites ELSE NoWrites )
  @@ RenderedGeneralWrites

\* The world data block MATERIAL mode lights the scene with.
StudioWorld == "BasedPlayblast_StudioHDRI"

\* MATERIAL mode: the engine, the world, the scene's light, EEVEE.
MaterialWrites ==
  [ render_engine |-> "BLENDER_EEVEE_NEXT", scene_world |-> StudioWorld,
    light_hide_render |-> TRUE, light_hide_viewport |-> TRUE,
    light_visible_camera |-> FALSE, light_visible_diffuse |-> FALSE,
    light_visible_glossy |-> FALSE, light_visible_transmission |-> FALSE,
    light_visible_volume_scatter |-> FALSE,
    eevee_use_scene_lights |-> FALSE, eevee_use_scene_world |-> TRUE,
    eevee_use_shadows |-> FALSE, eevee_use_soft_shadows |-> FALSE,
    eevee_use_raytrace |-> FALSE, eevee_use_ssr |-> FALSE,
    eevee_use_ssr_refraction |-> FALSE, eevee_taa_render_samples |-> 4,
    eevee_use_bloom |-> FALSE, eevee_use_gtao |-> FALSE,
    eevee_use_volumetric_lights |-> FALSE, eevee_gi_diffuse_bounces |-> 0,
    eevee_shadow_cube_size |-> "64", eevee_shadow_cascade_size |-> "64",
    eevee_sss_samples |-> 1, eevee_volumetric_samples |-> 1,
    eevee_use_motion_blur |-> FALSE, render_texture_limit |-> "1024",
    render_use_simplify |-> TRUE, render_simplify_subdivision |-> 0,
    render_simplify_child_particles |-> "0", render_simplify_volumes |-> "0",
    render_simplify_shadows |-> "0", render_simplify_culling |-> TRUE,
    scene_use_nodes |-> FALSE, eevee_tile_size |-> "8",
    render_film_transparent |-> FALSE ]

\* SOLID and WIREFRAME modes: the Workbench engine.
WorkbenchWrites(p) ==
  [ render_engine |-> "BLENDER_WORKBENCH", display_shading_light |-> "STUDIO",
    display_shading_color_type |-> "MATERIAL",
    display_shading_type |-> IF p.display_mode = "WIREFRAME" THEN "WIREFRAME" ELSE "SOLID",
    display_render_aa |-> "OFF", display_shading_render_pass |-> "COMBINED",
    display_shading_show_cavity |-> FALSE,
    display_shading_show_object_outline |-> FALSE,
    display_shading_show_specular_highlight |-> FALSE,
    display_shading_use_dof |-> p.enable_depth_of_field ]

ModeWrites(p, s) ==
  IF p.display_mode = "RENDERED" THEN RenderedWrites(s)
  ELSE IF p.display_mode = "MATERIAL" THEN MaterialWrites
  ELSE WorkbenchWrites(p)

\* os.path.join(output_dir, file_name): no frame range, no extension.
ApplyOutputWrites(p) ==
  [ render_filepath |-> p.output_path \o StripExtension(p.file_name) ]

\* The result of execute on properties p and property tree s0.
ApplyResult(p, s0, w, has_optional, makedirs_ok) ==
  LET p1 == [ p EXCEPT !.original_settings = JsonSnapshot(s0, ApplySnapshotKeys),
                !.original_settings_extended =
                  IF p.display_mode = "MATERIAL" THEN Restrict(s0, LightKeys)
                  ELSE NoSettings ]
      w1 == Present(ModeWrites(p, s0), has_optional)
      s1 == Assign(s0, w1)
      w2 == ResolutionWrites(p)
      s2 == Assign(s1, w2)
      w3 == ApplyOutputWrites(p) @@ EncoderWrites(p) @@ ManualRangeWrites(p)
              @@ MetadataWrites(p, s2)
      s3 == Assign(s2, w3)
      ws == IF p.display_mode = "MATERIAL" THEN w \cup {StudioWorld} ELSE w
  IN  IF ~makedirs_ok
      THEN [ ret |-> "None", report |-> "Error saving original settings",
             scene |-> s2, props |-> p1, worlds |-> ws,
             assigned |-> DOMAIN w1 \cup DOMAIN w2 ]
      ELSE [ ret |-> "FINISHED", report |-> "Blast settings applied", scene |-> s3,
             props |-> p1, worlds |-> ws,
             assigned |-> DOMAIN w1 \cup DOMAIN w2 \cup DOMAIN w3 ]

\* The user presses "Apply Blast Render Settings".
ApplyBlastSettings ==
  /\ ~running
  /\ ops < MaxOps
  /\ LET r == ApplyResult(props, scene, worlds, host.optional, host.can_mkdir)
     IN  /\ scene' = r.scene
         /\ props' = r.props
         /\ worlds' = r.worlds
         /\ assigned' = r.assigned
         /\ lastResult' = Result("apply_blast_settings", r.ret, r.report, "execute")
  /\ pre' = scene
  /\ ops' = ops + 1
  /\ UNCHANGED << self, running, timer, host, hostRender, hostJob, files, pngFrames,
                  viewer, lastEvent, hostCalls >>
  /\ UNCHANGED updaterVars

(***************************************************************************)
(* BPL_OT_restore_original_settings.execute                                *)
(***************************************************************************)
\* The attributes execute writes back from the snapshot: every key the
\* snapshot holds, the world apart.
RestoreSnapshotWrites(original) ==
  Restrict(original, (DOMAIN original \cap ApplySnapshotKeys) \ {"scene_world"})

\* The world: the saved one if the data block still exists, else a new
\* "Default" world; none if none was saved.
RestoreWorldWrites(original, w) ==
  IF "scene_world" \notin DOMAIN original THEN NoWrites
  ELSE IF original.scene_world = "None" THEN [scene_world |-> "None"]
  ELSE IF original.scene_world \in w THEN [scene_world |-> original.scene_world]
  ELSE [scene_world |-> "Default"]

RestoreWorlds(original, w) ==
  IF /\ "scene_world" \in DOMAIN original
     /\ original.scene_world # "None"
     /\ original.scene_world \notin w
  THEN w \cup {"Default"} ELSE w

\* The saved states of the scene's light.
RestoreLightWrites(extended) == Restrict(extended, DOMAIN extended \cap LightKeys)

\* A faulty variant: the viewport is left as it is.
RestoreViewWritesNone(s) == NoWrites

\* The general reset of the 3D viewports.
RestoreViewWrites(s) ==
  [ view_shading_type |-> "SOLID", view_overlay_show_overlays |-> TRUE ]
  @@ ( IF s.view_view_perspective = "CAMERA"
       THEN [ view_view_perspective |-> "PERSP", view_use_local_camera |-> FALSE ]
       ELSE NoWrites )

\* "if not props.original_settings": nothing was saved.
NothingSaved(p) == DOMAIN p.original_settings = {}

\* A faulty variant: only the light states are cleared.
ClearedPropsKeepSnapshot(p) == [p EXCEPT !.original_settings_extended = NoSettings]

\* What execute leaves in the two saved-settings properties.
ClearedProps(p) ==
  [p EXCEPT !.original_settings = NoSettings, !.original_settings_extended = NoSettings]

\* The result of execute on properties p and property tree s0.
RestoreResult(p, s0, w, has_viewport) ==
  IF NothingSaved(p)
  THEN [ ret |-> "CANCELLED", report |-> "No original settings saved to restore",
         scene |-> s0, props |-> p, worlds |-> w ]
  ELSE LET original == p.original_settings
           s1 == Assign(s0, RestoreSnapshotWrites(original))
           s2 == Assign(s1, RestoreWorldWrites(original, w))
           s3 == Assign(s2, RestoreLightWrites(p.original_settings_extended))
           s4 == IF has_viewport THEN Assign(s3, RestoreViewWrites(s3)) ELSE s3
       IN  [ ret |-> "FINISHED", report |-> "Original settings restored",
             scene |-> s4, props |-> ClearedProps(p),
             worlds |-> RestoreWorlds(original, w) ]

\* The user presses "Restore Original Settings".
RestoreOriginalSettings ==
  /\ ~running
  /\ LET r == RestoreResult(props, scene, worlds, host.viewport)
     IN  /\ scene' = r.scene
         /\ props' = r.props
         /\ worlds' = r.worlds
         /\ lastResult' = [ Result("restore_original_settings", r.ret, r.report, "execute")
                              EXCEPT !.prev = <<lastResult.op, lastResult.ret>> ]
  /\ UNCHANGED << self, running, timer, host, hostRender, hostJob, files, pngFrames,
                  viewer, lastEvent, hostCalls, pre, assigned, ops >>
  /\ UNCHANGED updaterVars

(***************************************************************************)
(* The system                                                              *)
(***************************************************************************)
Next ==
  \/ Invoke
  \/ ModalTimerSetup
  \/ ModalTimerRender
  \/ ModalTimerComplete
  \/ ModalEsc
  \/ ModalOther
  \/ HostRenderFrame
  \/ HostRenderEnd
  \/ HostStillDone
  \/ SetCustomFfmpegArgs
  \/ ApplyBlastSettings
  \/ RestoreOriginalSettings

Spec == Init /\ [][Next]_vars

\* The host keeps delivering events to a running modal operator: the timer
\* invoke added fires every 0.1 s, and other events keep arriving. Neither
\* the user's ESC nor the progress of the host's render is assumed.
TimerSpec ==
  /\ Spec
  /\ WF_vars(ModalTimerSetup)
  /\ WF_vars(ModalTimerRender)
  /\ WF_vars(ModalTimerComplete)
  /\ WF_vars(ModalOther)

\* The updater on its own: checks, one after the other.
UpdaterNext == CheckForUpdates

UpdaterSpec == UpdaterInit /\ [][UpdaterNext]_vars

(***************************************************************************)
(* Properties                                                              *)
(***************************************************************************)
\* Number of animation renders (render.render or render.opengl with
\* animation=True) among the render operators the operator has called.
AnimationCalls(calls) ==
  Cardinality({ i \in 1..Len(calls) :
                  calls[i] \in {"render_animation", "opengl_animation"} })

\* C1: after a run that invoke started and that ended through cleanup
\* (FINISHED, or CANCELLED by ESC), every attribute invoke assigned has the
\* value it had immediately before invoke.
C1_CleanupRestoresAssigned ==
  ( /\ lastResult.op = "create_playblast"
    /\ lastResult.how = "modal"
    /\ lastResult.ret \in {"FINISHED", "CANCELLED"} )
  => \A a \in assigned : scene[a] = pre[a]

\* C2: after apply_blast_settings and then restore_original_settings, both
\* returning FINISHED, every attribute apply assigned has the value it had
\* before apply, in every display mode and under every engine.
C2_RestoreUndoesApply ==
  ( /\ lastResult.op = "restore_original_settings"
    /\ lastResult.ret = "FINISHED"
    /\ lastResult.prev = <<"apply_blast_settings", "FINISHED">> )
  => \A a \in assigned : scene[a] = pre[a]

C4_CompleteOnlyAtFrameEnd ==
  [][ ( running /\ self._phase = "RENDER" /\ self'._phase = "COMPLETE" ) =>
        /\ lastEvent' = "TIMER"
        /\ \/ scene.scene_frame_current >= self._frame_end
           \/ IF self._use_actual_render
              THEN \A f \in self._frame_start..self._frame_end : f \in pngFrames
              ELSE \E i \in 1..Len(files) : files[i] = scene.render_filepath ]_vars

\* C4: a Cycles run is in COMPLETE although frames of a range of several
\* frames are missing.
C4_Witness ==
  /\ running
  /\ self._phase = "COMPLETE"
  /\ self._use_actual_render
  /\ self._frame_end > self._frame_start
  /\ \E f \in self._frame_start..self._frame_end : f \notin pngFrames

\* C5: once modal has returned CANCELLED for an ESC event, the timer is
\* removed, is_rendering is False, render_progress is 0, status_message is
\* empty, and the host runs no render: none goes on, none was started.
C5_EscLeavesNoRender ==
  ( lastEvent = "ESC" /\ lastResult.ret = "CANCELLED" /\ lastResult.how = "modal" )
  => /\ ~timer
     /\ ~running
     /\ ~props.is_rendering
     /\ props.render_progress = 0
     /\ props.status_message = <<>>
     /\ hostRender = "none"

\* C6: props.original_settings is empty once a create-playblast run has
\* finished its cleanup, and once restore_original_settings has returned
\* FINISHED: no snapshot outlives the run or the restore that consumes it.
C6_SnapshotDiscarded ==
  /\ ( /\ lastResult.op = "create_playblast"
       /\ lastResult.how = "modal"
       /\ lastResult.ret \in {"FINISHED", "CANCELLED"} )
     => NothingSaved(props)
  /\ ( lastResult.op = "restore_original_settings" /\ lastResult.ret = "FINISHED" )
     => NothingSaved(props)

\* C7: when a run has returned FINISHED, last_playblast_file is the path of
\* the video of that run, that video is on disk, and it is the file handed
\* to the viewer.
C7_OpensVideoOfThisRun ==
  ( /\ lastResult.op = "create_playblast"
    /\ lastResult.how = "modal"
    /\ lastResult.ret = "FINISHED" )
  => LET video == ConvertOutput(self, props)
     IN  /\ props.last_playblast_file = video
         /\ viewer = video

\* C8: restore_original_settings with nothing saved reports the error,
\* returns CANCELLED and changes neither the scene nor the properties; a
\* restore with something saved leaves both saved-settings properties empty
\* when it returns FINISHED, so that a restore repeated at once finds
\* nothing saved and is CANCELLED.
C8_RestoreWithNothingSaved ==
  /\ [] ( ( lastResult.op = "restore_original_settings" /\ lastResult.ret = "FINISHED" )
            => /\ NothingSaved(props)
               /\ DOMAIN props.original_settings_extended = {}
               /\ RestoreResult(props, scene, worlds, host.viewport).ret = "CANCELLED" )
  /\ [][ ( lastResult'.op = "restore_original_settings" /\ lastResult' # lastResult )
           => IF NothingSaved(props)
              THEN /\ lastResult'.ret = "CANCELLED"
                   /\ lastResult'.report = "No original settings saved to restore"
                   /\ scene' = scene
                   /\ worlds' = worlds
                   /\ props' = props
              ELSE lastResult'.ret = "FINISHED" ]_vars

\* C8: a restore that found nothing saved, right after a restore that
\* returned FINISHED.
C8_Witness ==
  /\ lastResult.op = "restore_original_settings"
  /\ lastResult.ret = "CANCELLED"
  /\ lastResult.prev = <<"restore_original_settings", "FINISHED">>

\* C9: in a run with use_custom_ffmpeg_args set, once the run has started
\* its render, the encoder differs from the encoder of the run that differs
\* only in custom_ffmpeg_args, and video_quality was not applied: the
\* encoder's quality is what it was before invoke.
C9_CustomArgsDetermineEncoding ==
  ( running /\ self._phase # "SETUP" /\ props.use_custom_ffmpeg_args )
  => /\ \A a \in FfmpegArgChoices \ {props.custom_ffmpeg_args} :
          LET other == InvokeResult([props EXCEPT !.custom_ffmpeg_args = a], pre,
                                    worlds, host.viewport, host.can_mkdir)
          IN  EncoderOf(other.self, other.props, other.scene)
                # EncoderOf(self, props, scene)
     /\ scene.ffmpeg_constant_rate_factor = pre.ffmpeg_constant_rate_factor

\* C10: when show_metadata and metadata_resolution are set, the stamp note
\* the scene holds after invoke has returned RUNNING_MODAL, and after apply
\* has returned FINISHED, contains the line "Resolution: W x H" of the
\* effective resolution, whatever metadata_note is.
C10_NoteHasResolutionLine ==
  ( /\ props.show_metadata
    /\ props.metadata_resolution
    /\ \/ ( /\ lastResult.op = "create_playblast"
            /\ lastResult.how = "invoke"
            /\ lastResult.ret = "RUNNING_MODAL" )
       \/ ( lastResult.op = "apply_blast_settings" /\ lastResult.ret = "FINISHED" ) )
  => LET text == scene.render_stamp_note_text
         line == ResolutionLine(scene.render_resolution_x, scene.render_resolution_y,
                                scene.render_resolution_percentage)
     IN  \E i \in 1..Len(text) :
           /\ i + Len(line) - 1 <= Len(text)
           /\ SubSeq(text, i, i + Len(line) - 1) = line

\* C11: after a check that succeeded, update_available is True exactly when
\* the latest release's version tuple is greater than the installed one's;
\* then update_version is the tag without leading 'v' and
\* update_download_url is the URL of the release's first .zip asset, or its
\* zipball_url when it has no .zip asset.
C11_CheckReportsLatestRelease ==
  ( updateCheck.result = "True" )
  => LET release == updateCheck.response
         latest  == LStripV(release.tag_name)
         newer   == TupleGreater(
                      version_tuple_from_string(latest),
                      version_tuple_from_string(get_current_version(updateCheck.version)))
         zips    == SelectSeq(release.assets, IsZip)
     IN  /\ updater.update_available = newer
         /\ newer => /\ updater.update_version = latest
                     /\ updater.update_download_url =
                          IF zips # <<>> THEN zips[1].browser_download_url
                          ELSE release.zipball_url

\* C12: after every run that reached cleanup (FINISHED, CANCELLED by ESC, or
\* CANCELLED by invoke after the viewport was found), every key invoke
\* captured in _original_settings has the captured value: the value the
\* scene had before invoke, also where a manual frame range or a selected
\* camera overrode it.
C12_CapturedKeysWrittenBack ==
  ( /\ lastResult.op = "create_playblast"
    /\ lastResult.ret \in {"FINISHED", "CANCELLED"}
    /\ lastResult.report # "No 3D viewport found" )
  => LET captured == CaptureOriginalSettings(pre, Assign(pre, ManualRangeWrites(props)))
     IN  /\ DOMAIN captured = OriginalSettingsKeys
         /\ \A k \in OriginalSettingsKeys : scene[k] = captured[k] /\ captured[k] = pre[k]
         /\ lastResult.how = "modal" => self._original_settings = captured

\* C12: a run with a manual frame range and a selected camera, both other
\* than the scene's, has finished.
C12_Witness ==
  /\ lastResult.op = "create_playblast"
  /\ lastResult.ret = "FINISHED"
  /\ ~props.use_scene_frame_range
  /\ props.end_frame # pre.scene_frame_end
  /\ SelectedCamera(props)
  /\ props.camera_object # pre.scene_camera
  /\ self._frame_end = props.end_frame

\* C13: whenever invoke has returned CANCELLED, no timer and no modal
\* handler is registered, and the scene and the preferences (the frame range
\* and render_display_type included) are what they were before invoke.
C13_CancelledInvokeChangesNothing ==
  ( /\ lastResult.op = "create_playblast"
    /\ lastResult.how = "invoke"
    /\ lastResult.ret = "CANCELLED" )
  => /\ ~timer
     /\ ~running
     /\ \A a \in DOMAIN pre \ {"scene_frame_current"} : scene[a] = pre[a]

\* C14: after a run in RENDERED mode with the Cycles engine has ended
\* (FINISHED, or CANCELLED by ESC), the nine Cycles render settings invoke
\* lowered have the values they had before invoke.
C14_CyclesSettingsRestored ==
  ( /\ lastResult.op = "create_playblast"
    /\ lastResult.how = "modal"
    /\ lastResult.ret \in {"FINISHED", "CANCELLED"}
    /\ self._use_actual_render )
  => \A k \in CyclesRenderKeys : scene[k] = pre[k]

\* C15: while a viewport (OpenGL) run is in its RENDER phase, the path the
\* phase polls for completion is the path invoke configured the render to
\* write: scene.render.filepath, which ends in the video extension.
C15_PollsConfiguredPath ==
  ( running /\ self._phase = "RENDER" /\ ~self._use_actual_render )
  => LET configured == VideoPath(props, self._frame_start, self._frame_end)
     IN  /\ scene.render_filepath = configured
         /\ configured[Len(configured)] = get_file_extension(props.video_format)
         /\ PolledPath(props, scene) = configured

\* C16: every run that reached RUNNING_MODAL eventually returns FINISHED or
\* CANCELLED while the host keeps delivering TIMER events, also when the
\* host's render advances no frame and writes no file.
C16_RunEventuallyReturns ==
  running ~> ( /\ ~running
               /\ lastResult.op = "create_playblast"
               /\ lastResult.ret \in {"FINISHED", "CANCELLED"} )

\* C17: for a range with frame_start < frame_end, on the RENDER tick after
\* the playhead has been through frame_end (the host's render ran to its end
\* and wrote its output) and has looped back to frame_start, the first
\* completion condition holds and the phase becomes COMPLETE.
C17_LoopBackCompletes ==
  [][ ( /\ running
        /\ self._phase = "RENDER"
        /\ lastResult'.how = "modal"
        /\ lastEvent' = "TIMER"
        /\ self._frame_start < self._frame_end
        /\ AnimationCalls(hostCalls) = 1
        /\ hostRender = "none"
        /\ IF self._use_actual_render
           THEN self._frame_end \in pngFrames
           ELSE \E i \in 1..Len(files) : files[i] = scene.render_filepath
        /\ scene.scene_frame_current = self._frame_start )
      => /\ LoopedBackOrComplete(self', scene.scene_frame_current,
                                 self'._last_reported_frame,
                                 RenderComplete(self, props, scene, files, pngFrames))
         /\ self'._phase = "COMPLETE" ]_vars

\* The attributes of a 3D viewport.
ViewKeys ==
  { "view_shading_type", "view_overlay_show_overlays", "view_view_perspective",
    "view_use_local_camera" }

\* C18: a restore_original_settings that finds saved settings leaves the 3D
\* viewport with shading SOLID and overlays shown, and leaves camera view
\* for PERSP, whatever the viewport showed before; no viewport value comes
\* from the snapshot, which holds none.
C18_RestoreResetsViewports ==
  [][ ( /\ lastResult'.op = "restore_original_settings"
        /\ lastResult'.how = "execute"
        /\ lastResult'.ret = "FINISHED"
        /\ lastResult' # lastResult
        /\ host.viewport )
      => /\ scene'.view_shading_type = "SOLID"
         /\ scene'.view_overlay_show_overlays = TRUE
         /\ scene.view_view_perspective = "CAMERA"
              => scene'.view_view_perspective = "PERSP"
         /\ scene.view_view_perspective # "CAMERA"
              => scene'.view_view_perspective = scene.view_view_perspective
         /\ DOMAIN props.original_settings \cap ViewKeys = {} ]_vars

\* A restore has run on a viewport that showed wireframe shading without
\* overlays through the camera before apply_blast_settings, and has left
\* it SOLID, with overlays, in PERSP.
C18_Witness ==
  /\ lastResult.op = "restore_original_settings"
  /\ lastResult.ret = "FINISHED"
  /\ host.viewport
  /\ pre.view_shading_type = "WIREFRAME"
  /\ pre.view_overlay_show_overlays = FALSE
  /\ pre.view_view_perspective = "CAMERA"
  /\ scene.view_shading_type = "SOLID"
  /\ scene.view_overlay_show_overlays = TRUE
  /\ scene.view_view_perspective = "PERSP"

\* C19: every execution of apply_blast_settings returns FINISHED or
\* CANCELLED: FINISHED when all settings were applied, CANCELLED when
\* applying them raised an exception (here: the output directory cannot be
\* created).
C19_ApplyReturnsFinishedOrCancelled ==
  ( lastResult.op = "apply_blast_settings" /\ lastResult.how = "execute" )
    => /\ lastResult.ret \in {"FINISHED", "CANCELLED"}
       /\ lastResult.ret = "FINISHED" <=> host.can_mkdir
       /\ lastResult.ret = "CANCELLED" <=> ~host.can_mkdir

\* The identifier 'x<W>y<H>' of a preset encodes width w and height h.
PresetEncodes(preset, w, h) ==
  preset = <<"x">> \o IntToStr(w) \o <<"y">> \o IntToStr(h)

\* C20: an invoke that starts a run leaves the render resolution set by
\* resolution_mode: SCENE keeps resolution_x and resolution_y, PRESET sets
\* them to the W and H encoded in the preset identifier, CUSTOM sets them to
\* props.resolution_x and props.resolution_y; resolution_percentage is
\* props.resolution_percentage in all three modes.
C20_ResolutionByMode ==
  [][ ( /\ ~running
        /\ running'
        /\ lastResult'.op = "create_playblast"
        /\ lastResult'.ret = "RUNNING_MODAL" )
      => /\ props.resolution_mode = "SCENE"
              => /\ scene'.render_resolution_x = scene.render_resolution_x
                 /\ scene'.render_resolution_y = scene.render_resolution_y
         /\ props.resolution_mode = "PRESET"
              => PresetEncodes(props.resolution_preset, scene'.render_resolution_x,
                               scene'.render_resolution_y)
         /\ props.resolution_mode = "CUSTOM"
              => /\ scene'.render_resolution_x = props.resolution_x
                 /\ scene'.render_resolution_y = props.resolution_y
         /\ props.resolution_mode \in RESOLUTION_MODE_ITEMS
         /\ scene'.render_resolution_percentage = props.resolution_percentage ]_vars

\* A run was started with the preset 'x854y480' at 50 percent on a scene of
\* another resolution and percentage, and renders at 854 x 480, 50 percent.
C20_Witness ==
  /\ running
  /\ lastResult.op = "create_playblast"
  /\ lastResult.ret = "RUNNING_MODAL"
  /\ props.resolution_mode = "PRESET"
  /\ props.resolution_preset = <<"x","8","5","4","y","4","8","0">>
  /\ pre.render_resolution_x # 854
  /\ pre.render_resolution_percentage # props.resolution_percentage
  /\ scene.render_resolution_x = 854
  /\ scene.render_resolution_y = 480
  /\ scene.render_resolution_percentage = 50

=============================================================================
